---- MODULE Spec2Model ----
(***************************************************************************)
(* A model of the quoin block-device stack: the single-block journal       *)
(* (quoin-journal) over a device whose writes may fail or tear             *)
(* (quoin-poweroff, quoin-file), and the GPT subsystem (quoin-gpt).        *)
(***************************************************************************)
EXTENDS Integers, Sequences, FiniteSets, TLC

(***************************************************************************)
(* Bounds of the journal model.  A cell is one 8-byte word of a block: the *)
(* journal's meta block holds idx in its first cell and crc in its second. *)
(***************************************************************************)
\* cells per physical block (const LOWER, in 8-byte words)
LowerCells == 2
\* physical blocks per logical block (UPPER / LOWER)
Ratio == 2
\* regions of Ratio physical blocks on the inner device: meta, shadow, data
JRegions == 4
\* set operations in one behaviour, where a set may follow a failed set
MaxSets == 2

UpperCells == LowerCells * Ratio

\* physical blocks of the inner device (Memory COUNT)
JCount == JRegions * Ratio

\* the two byte patterns of tests::tear, 0x00.. and 0xff.., per cell
JBlocks == {[c \in 1..UpperCells |-> 0], [c \in 1..UpperCells |-> 1]}


(***************************************************************************)
(* Bounds of the GPT model.  Blocks are sequences of words, one word per   *)
(* encoded field, with the zero bytes that pad a block left implicit.      *)
(***************************************************************************)
\* blocks of the device under the Disk (Memory COUNT)
DevLen == 10
\* entries that fit one block (const SIZE / Entry::SIZE)
EntriesPerBlock == 64
\* entries a Disk may hold in the model
MaxEntries == 2
\* raw zeroing / corrupting writes in one behaviour
MaxFaults == 2
\* longest name, in UTF-16 code units, passed to Disk::add
MaxNameLen == 37
\* Partition::set calls in one behaviour
MaxPartSets == 2


(***************************************************************************)
(* Bounds of the integrity model.  An inner block is a body of HBodyCells  *)
(* cells followed by a tag.                                                *)
(***************************************************************************)
\* blocks of the device under the Hmac (Memory COUNT)
HLen == 2
\* cells of a body (SIZE - H::SIZE bytes)
HBodyCells == 2
\* raw writes to the inner device by a party other than Hmac::set
MaxTampers == 1
\* distinct inner blocks that Hmac::set stores in one behaviour
MaxHmacBlocks == 3


(***************************************************************************)
(* Bounds of the Tear and Crypt models.  A block under the Tear has        *)
(* LowerCells cells, as under the journal.                                 *)
(***************************************************************************)
\* blocks of the device under the Tear (Memory COUNT)
TearCount == 2
\* blocks of the device under the Crypt (Memory COUNT)
CryptCount == 2
\* cells of a block of the Crypt (SIZE)
CryptCells == 2

\* Entry::SIZE
EntrySize == 128
\* <[Entry]>::MIN_SIZE, bytes![16; KiB]
MinSize == 16384
\* Header::SIGNATURE, Header::REVISION, Header::SIZE
Signature == 5
Revision == 65536
HeaderSize == 92
\* the name buffer of Disk::add, [0u16; 36]
NameCap == 36
\* Entry::EMPTY
EmptyKind == 0

BlockSize == EntriesPerBlock * EntrySize

VARIABLES
  jdev,       \* inner device of the journal: physical index -> block of cells
  jopen,      \* a Journal object exists (Journal::load returned Ok)
  jsets,      \* set operations counted against MaxSets
  jbefore,    \* logical blocks as they were just before the last set
  jlast,      \* the set issued since the last successful load, if any
  jeffect,    \* what the last successful load made of a failed set
  jmodel,     \* per logical block, the block of the last set that returned Ok
  jret,       \* outcome of the last journal operation
  dev,        \* device under the Disk: block index -> words
  disk,       \* the in-memory Disk, when one is alive
  gret,       \* the last GPT operation: name, result, inputs, what it met
  faults,     \* raw writes made so far
  crashed,    \* a save was cut short by a failing device write
  formatted,  \* guid() of the Disk the last successful format returned
  synced,     \* only successful adds happened since the last format
  parts,      \* the Partition handles alive, each holding an Rc of the device
  pret,       \* the last Partition::get or Partition::set and its outcome
  psets,      \* Partition::set calls counted against MaxPartSets
  hdev,       \* inner device of the Hmac: index -> [body, tag]
  hmodel,     \* per index, the body of the last Hmac::set
  hseen,      \* every inner block an Hmac::set has stored, at any index
  hret,       \* the last Hmac operation and its outcome
  htampers,   \* raw writes made by another party
  tdev,       \* device under the Tear: index -> block of cells
  tret,       \* the last Tear operation: its block, the block before, result
  cdev,       \* device under the Crypt: index -> ciphertext
  crypt,      \* the Crypt object: its key and cipher
  cmodel,     \* per index, the plaintext, key and cipher of the last set
  cret        \* the last Crypt operation and its outcome

jvars == <<jdev, jopen, jsets, jbefore, jlast, jeffect, jmodel, jret>>

gvars == <<dev, disk, gret, faults, crashed, formatted, synced>>

pvars == <<parts, pret, psets>>

vars == <<jdev, jopen, jsets, jbefore, jlast, jeffect, jmodel, jret,
          dev, disk, gret, faults, crashed, formatted, synced,
          parts, pret, psets,
          hdev, hmodel, hseen, hret, htampers,
          tdev, tret, cdev, crypt, cmodel, cret>>

HIdle == UNCHANGED <<hdev, hmodel, hseen, hret, htampers>>

TIdle == UNCHANGED <<tdev, tret>>

CIdle == UNCHANGED <<cdev, crypt, cmodel, cret>>

\* the wrapper devices are left alone
WIdle == HIdle /\ TIdle /\ CIdle

(***************************************************************************)
(* quoin-hmac and quoin-integrity: Hmac<T, H, SIZE> and Hs512<T, SIZE>     *)
(* keep a tag in the tail of every inner block.  The MAC is ideal: the tag *)
(* of a message is the message, so that two tags are equal exactly when    *)
(* the signed index and body are, and no other value verifies.             *)
(***************************************************************************)

HIndex == 0 .. HLen - 1

HBodies == [1..HBodyCells -> {0, 1}]

\* the bodies the caller writes
HSetBodies == HBodies \ {[c \in 1..HBodyCells |-> 0]}

\* the tag of a zeroed block, and of a tag with a byte changed: no MAC
ZeroTag == << >>

\* mutated: a tag signed over the body alone
MacNoIndex(index, body) == <<0>> \o body

\* signer.update(&index.to_le_bytes()); signer.update(body); sign
Mac(index, body) == <<index>> \o body

\* Hmac::len
HmacLen(d) == Cardinality(DOMAIN d)

\* mutated: the block Hmac::set stores, its tag signed without the index
SetBlockNoIndex(index, body) == [body |-> body, tag |-> Mac(0, body)]

\* the block Hmac::set stores: buffer = body ++ tag
SetBlock(index, body) == [body |-> body, tag |-> Mac(index, body)]

NoBody == << >>

NoHmacOp == [op |-> "none", idx |-> 0, res |-> "none", body |-> NoBody,
             raw |-> [body |-> NoBody, tag |-> ZeroTag]]

HInit ==
  /\ hdev = [i \in HIndex |-> [body |-> [c \in 1..HBodyCells |-> 0], tag |-> ZeroTag]]
  /\ hmodel = [i \in HIndex |-> NoBody]
  /\ hseen = {}
  /\ hret = NoHmacOp
  /\ htampers = 0

\* Hmac::set over a Memory, which never fails
HmacSet(index, body) ==
  /\ hdev' = [hdev EXCEPT ![index] = SetBlock(index, body)]
  /\ hmodel' = [hmodel EXCEPT ![index] = body]
  /\ hseen' = hseen \cup {SetBlock(index, body)}
  /\ hret' = [op |-> "set", idx |-> index, res |-> "ok", body |-> body,
              raw |-> SetBlock(index, body)]
  /\ UNCHANGED htampers

\* Hmac::get, where raw is the block the inner get returned
HmacGet(index, raw) ==
  /\ hret' = IF raw.tag = Mac(index, raw.body)
               THEN [op |-> "get", idx |-> index, res |-> "ok", body |-> raw.body,
                     raw |-> raw]
               ELSE [op |-> "get", idx |-> index, res |-> "BlockModified",
                     body |-> NoBody, raw |-> raw]
  /\ UNCHANGED <<hdev, hmodel, hseen, htampers>>

\* Corrupt::get: the block as stored, or with one byte replaced by a random
\* one, in the body or in the tag
CorruptGet(block) ==
  {block}
    \cup {[block EXCEPT !.body[c] = v] : c \in 1..HBodyCells, v \in {0, 1}}
    \cup {[block EXCEPT !.tag = ZeroTag]}

\* what a party without the key can store: any body, with a tag it has
\* seen on the device or one that is no MAC
Forgeable == {[body |-> b, tag |-> t] :
                b \in HBodies, t \in {ZeroTag} \cup {s.tag : s \in hseen}}

\* a raw write to the inner device that does not go through Hmac::set
Tamper(index, block) ==
  /\ htampers < MaxTampers
  /\ block # hdev[index]
  /\ htampers' = htampers + 1
  /\ hdev' = [hdev EXCEPT ![index] = block]
  /\ hret' = [op |-> "tamper", idx |-> index, res |-> "none", body |-> NoBody,
              raw |-> block]
  /\ UNCHANGED <<hmodel, hseen>>

HSetStep ==
  \E index \in HIndex, body \in HSetBodies :
    /\ Cardinality(hseen \cup {SetBlock(index, body)}) <= MaxHmacBlocks
    /\ HmacSet(index, body)

HGetStep == \E index \in HIndex : HmacGet(index, hdev[index])

HGetCorruptStep ==
  \E index \in HIndex : \E raw \in CorruptGet(hdev[index]) \ {hdev[index]} :
    HmacGet(index, raw)

HTamperStep == \E index \in HIndex : \E block \in Forgeable : Tamper(index, block)

(***************************************************************************)
(* quoin-poweroff: Tear<T, SIZE> over a Memory                             *)
(***************************************************************************)

TearIndex == 0 .. TearCount - 1

TearBlocks == [1..LowerCells -> {0, 1}]

NoTearOp == [op |-> "none", idx |-> 0, res |-> "none",
             old |-> [c \in 1..LowerCells |-> 0], new |-> [c \in 1..LowerCells |-> 0],
             tmp |-> [c \in 1..LowerCells |-> 0]]

TInit ==
  /\ tdev = [i \in TearIndex |-> [c \in 1..LowerCells |-> 0]]
  /\ tret = NoTearOp

\* Tear::set: torn is gen_bool(odds), tear is gen_range(0..tmp.len()).  The
\* prefix is copied into tmp, and block is what is handed to the device.
TearSet(index, block, torn, tear) ==
  LET old == tdev[index]
      \* tmp[..tear].copy_from_slice(&block[..tear])
      tmp == IF torn
               THEN [c \in 1..LowerCells |-> IF c <= tear THEN block[c] ELSE old[c]]
               ELSE old
  IN /\ tdev' = [tdev EXCEPT ![index] = block]
     /\ tret' = [op |-> "set", idx |-> index,
                 res |-> IF torn THEN "Torn" ELSE "ok",
                 old |-> old, new |-> block, tmp |-> tmp]

\* Tear::get
TearGet(index) ==
  /\ tret' = [op |-> "get", idx |-> index, res |-> "ok",
              old |-> tdev[index], new |-> tdev[index], tmp |-> tdev[index]]
  /\ UNCHANGED tdev

TSetStep ==
  \E index \in TearIndex, block \in TearBlocks :
    \/ TearSet(index, block, FALSE, 0)
    \/ \E tear \in 0..LowerCells - 1 : TearSet(index, block, TRUE, tear)

TGetStep == \E index \in TearIndex : TearGet(index)

(***************************************************************************)
(* quoin-crypt: Crypt<T, K, SIZE> over a Memory.  The cipher is ideal: a   *)
(* ciphertext cell names the key, the IV, the position and the plaintext   *)
(* cell it encrypts, and decrypts to that cell under that key, IV and      *)
(* position only.  The Crypter is openssl's: its padding is on unless      *)
(* turned off, and its update panics when the output buffer is shorter     *)
(* than the input plus one cipher block, for a cipher whose block size is  *)
(* above 1.                                                                *)
(***************************************************************************)

CryptIndex == 0 .. CryptCount - 1

CryptKeys == {1, 2}

\* ciphers that pass the assertions of Crypt::new: a 16-byte IV, and a
\* block size that divides SIZE (1 for XTS, as in the test; a block for CBC)
Ciphers == {[name |-> "xts", block |-> 1], [name |-> "cbc", block |-> CryptCells]}

CryptBlocks == {[c \in 1..CryptCells |-> 0], [c \in 1..CryptCells |-> 1],
                [c \in 1..CryptCells |-> IF c = 1 THEN 1 ELSE 0]}

\* what a cell decrypts to under another key, IV or position
Garbage == 0 - 1

\* Crypter in Mode::Encrypt with the index as IV
Encrypt(key, index, block) ==
  [c \in 1..CryptCells |-> <<key, index, c, block[c]>>]

\* Crypter in Mode::Decrypt with the index as IV
Decrypt(key, index, ciphertext) ==
  [c \in 1..CryptCells |->
     IF /\ Len(ciphertext[c]) = 4
        /\ SubSeq(ciphertext[c], 1, 3) = <<key, index, c>>
       THEN ciphertext[c][4]
       ELSE Garbage]

\* Crypter::update(input, output) panics on an output it takes as too short
UpdatePanics(cipher, input, output) ==
  IF cipher.block > 1 THEN output < input + cipher.block ELSE output < input

NoCrypt == [live |-> FALSE, key |-> 0, cipher |-> "none", block |-> 1]

NoPlain == [set |-> FALSE, key |-> 0, cipher |-> "none",
            block |-> [c \in 1..CryptCells |-> 0]]

NoCryptOp == [op |-> "none", idx |-> 0, res |-> "none",
              blk |-> [c \in 1..CryptCells |-> 0]]

CInit ==
  /\ cdev = [i \in CryptIndex |-> [c \in 1..CryptCells |-> << >>]]
  /\ crypt = NoCrypt
  /\ cmodel = [i \in CryptIndex |-> NoPlain]
  /\ cret = NoCryptOp

\* Crypt::len
CryptLen(d) == Cardinality(DOMAIN d)

\* Crypt::new over the same Memory; the Crypt there was is dropped
CryptNew(key, cipher) ==
  /\ cret.res # "panic"
  /\ crypt' = [live |-> TRUE, key |-> key, cipher |-> cipher.name,
               block |-> cipher.block]
  /\ cret' = [NoCryptOp EXCEPT !.op = "new", !.res = "ok"]
  /\ UNCHANGED <<cdev, cmodel>>

\* Crypt::set; a panic ends the program
CryptSet(index, block) ==
  /\ crypt.live
  /\ cret.res # "panic"
  /\ IF UpdatePanics(crypt, CryptCells, CryptCells)
       THEN /\ cret' = [op |-> "set", idx |-> index, res |-> "panic", blk |-> block]
            /\ UNCHANGED <<cdev, cmodel>>
       ELSE /\ cdev' = [cdev EXCEPT ![index] = Encrypt(crypt.key, index, block)]
            /\ cmodel' = [cmodel EXCEPT ![index] =
                            [set |-> TRUE, key |-> crypt.key,
                             cipher |-> crypt.cipher, block |-> block]]
            /\ cret' = [op |-> "set", idx |-> index, res |-> "ok", blk |-> block]
  /\ UNCHANGED crypt

\* Crypt::get; a panic ends the program
CryptGet(index) ==
  /\ crypt.live
  /\ cret.res # "panic"
  /\ cret' = IF UpdatePanics(crypt, CryptCells, CryptCells)
               THEN [op |-> "get", idx |-> index, res |-> "panic",
                     blk |-> [c \in 1..CryptCells |-> 0]]
               ELSE [op |-> "get", idx |-> index, res |-> "ok",
                     blk |-> Decrypt(crypt.key, index, cdev[index])]
  /\ UNCHANGED <<cdev, crypt, cmodel>>

CNewStep == \E key \in CryptKeys, cipher \in Ciphers : CryptNew(key, cipher)

CSetStep == \E index \in CryptIndex, block \in CryptBlocks : CryptSet(index, block)

CGetStep == \E index \in CryptIndex : CryptGet(index)

(***************************************************************************)
(* quoin-journal                                                           *)
(***************************************************************************)

\* Journal::len: self.device.len() / (UPPER / LOWER) - 2
JournalLen == JCount \div Ratio - 2

JIndex == 0 .. JournalLen - 1

\* CRC-64/ISO over idx || data: a checksum with no collisions inside the
\* bounded domain, and different from the zero found in a fresh meta block.
Crc64(idx, data) ==
  LET RECURSIVE Val(_)
      Val(n) == IF n = 0 THEN 0 ELSE 2 * Val(n - 1) + data[n]
  IN 1 + idx + JournalLen * Val(Len(data))

\* Journal::pull: the Ratio physical blocks of region index, concatenated
Pull(d, index) ==
  [c \in 1..UpperCells |->
     d[index * Ratio + (c - 1) \div LowerCells][((c - 1) % LowerCells) + 1]]

\* Journal::push, mutated: idx = index + i, the region not scaled
PushUnscaled(index, block) ==
  [i \in 1..Ratio |->
     [at  |-> index + (i - 1),
      blk |-> [c \in 1..LowerCells |-> block[(i - 1) * LowerCells + c]]]]

\* Journal::push: the physical writes of region index, in the order issued
Push(index, block) ==
  [i \in 1..Ratio |->
     [at  |-> index * Ratio + (i - 1),
      blk |-> [c \in 1..LowerCells |-> block[(i - 1) * LowerCells + c]]]]

\* the meta block of Journal::set: idx, crc, zero padding
MetaBlock(index, block) ==
  LET crc == Crc64(index, block)
  IN [c \in 1..UpperCells |-> IF c = 1 THEN index ELSE IF c = 2 THEN crc ELSE 0]

\* Journal::set, mutated: destination first, then meta and shadow
SetWritesDestFirst(index, block) ==
  Push(index + 2, block) \o Push(0, MetaBlock(index, block)) \o Push(1, block)

\* Journal::set, mutated: meta and shadow only, the destination left to
\* the replay of the next load
SetWritesNoDest(index, block) ==
  Push(0, MetaBlock(index, block)) \o Push(1, block)

\* Journal::set, mutated: shadow first, then meta and the destination
SetWritesShadowFirst(index, block) ==
  Push(1, block) \o Push(0, MetaBlock(index, block)) \o Push(index + 2, block)

\* Journal::set: push(0, meta); push(1, block); push(index + 2, block)
SetWrites(index, block) ==
  Push(0, MetaBlock(index, block)) \o Push(1, block) \o Push(index + 2, block)

\* A write of block new over old that stops after k cells.  quoin-file's
\* write_all_at may stop anywhere; Tear::set hands the whole block to the
\* device before it reports Torn (k = LowerCells).
TornBlock(old, new, k) ==
  [c \in 1..LowerCells |-> IF c <= k THEN new[c] ELSE old[c]]

\* The device after a run of physical writes of which the first f complete
\* and write f + 1 (when there is one) fails having stored k cells; the `?`
\* of push returns at that failure, so no later write is issued.  A write
\* stored whole and reported failed leaves the device as the failure of the
\* next write with nothing stored does, so the callers keep k = LowerCells
\* for the last write only.
ApplyWrites(d, writes, f, k) ==
  LET done(p) == {n \in 1..Len(writes) : n <= f /\ writes[n].at = p}
      last(p) == CHOOSE n \in done(p) : \A m \in done(p) : m <= n
      torn(p) == f + 1 <= Len(writes) /\ writes[f + 1].at = p
      before(p) == IF done(p) = {} THEN d[p] ELSE writes[last(p)].blk
  IN [p \in DOMAIN d |->
        IF torn(p) THEN TornBlock(before(p), writes[f + 1].blk, k)
        ELSE before(p)]

\* Journal::get for every index: the logical view of the device
Logical(d) == [j \in JIndex |-> Pull(d, j + 2)]

\* Journal::load, mutated: meta is zeroed before the shadow is replayed
ReplayClearsMeta(d) ==
  LET meta == Pull(d, 0)
      data == Pull(d, 1)
      idx  == meta[1]
      crc  == meta[2]
  IN IF Crc64(idx, data) = crc
       THEN Push(0, [c \in 1..UpperCells |-> 0]) \o Push(idx + 2, data)
       ELSE << >>

\* Journal::load, mutated: the shadow is replayed whatever the CRC is
ReplayAlways(d) ==
  LET meta == Pull(d, 0)
      data == Pull(d, 1)
      idx  == meta[1]
  IN Push(idx + 2, data)

\* Journal::load: the writes of the replay, none when the CRC differs
ReplayWrites(d) ==
  LET meta == Pull(d, 0)
      data == Pull(d, 1)
      idx  == meta[1]
      crc  == meta[2]
  IN IF Crc64(idx, data) = crc THEN Push(idx + 2, data) ELSE << >>

NoSet == [idx |-> 0, blk |-> << >>, res |-> "none"]

JInit ==
  /\ jdev = [p \in 0..JCount - 1 |-> [c \in 1..LowerCells |-> 0]]
  /\ jopen = FALSE
  /\ jsets = 0
  /\ jbefore = Logical(jdev)
  /\ jlast = NoSet
  /\ jeffect = "none"
  /\ jmodel = Logical(jdev)
  /\ jret = "none"

\* Journal::load(device): f replay writes complete; a failing one stores k
\* cells and load returns the error, so no Journal exists afterwards.
JournalLoad(f, k) ==
  LET writes == ReplayWrites(jdev)
      ok == f >= Len(writes)
      after == ApplyWrites(jdev, writes, f, k)
  IN /\ f <= Len(writes)
     /\ (ok => k = 0)
     /\ (k = LowerCells => f + 1 = Len(writes))
     /\ jdev' = after
     /\ jopen' = ok
     /\ jret' = IF ok THEN "load_ok" ELSE "load_err"
     /\ jlast' = IF ok THEN NoSet ELSE jlast
     /\ jbefore' = IF ok THEN Logical(after) ELSE jbefore
     /\ UNCHANGED <<jsets, jmodel>>
     /\ jeffect' =
          IF ~ok THEN jeffect
          ELSE IF jlast.res # "err" \/ jlast.blk = jbefore[jlast.idx] THEN "none"
          ELSE IF Logical(after)[jlast.idx] = jlast.blk THEN "new"
          ELSE IF Logical(after)[jlast.idx] = jbefore[jlast.idx] THEN "old"
          ELSE "torn"

\* Journal::set(index, block) on the current Journal object
JournalSet(index, block, f, k) ==
  LET writes == SetWrites(index, block)
      ok == f >= Len(writes)
  IN /\ jopen
     /\ f <= Len(writes)
     /\ (ok => k = 0)
     /\ (k = LowerCells => f + 1 = Len(writes))
     /\ jdev' = ApplyWrites(jdev, writes, f, k)
     /\ jbefore' = Logical(jdev)
     /\ jlast' = [idx |-> index, blk |-> block, res |-> IF ok THEN "ok" ELSE "err"]
     /\ jret' = IF ok THEN "set_ok" ELSE "set_err"
     /\ UNCHANGED <<jopen, jeffect>>

\* the caller of tests::tear: a set on a Journal that was just loaded
JournalSetOnce(index, block, f, k) ==
  /\ jret = "load_ok"
  /\ JournalSet(index, block, f, k)
  /\ UNCHANGED <<jsets, jmodel>>

\* a caller that keeps its Journal after a set, failed or not
JournalSetAgain(index, block, f, k) ==
  /\ jsets < MaxSets
  /\ JournalSet(index, block, f, k)
  /\ jsets' = jsets + 1
  /\ UNCHANGED jmodel

\* Journal::set(index, block) over a device that does not fail
JournalSetClean(index, block) ==
  /\ JournalSet(index, block, Len(SetWrites(index, block)), 0)
  /\ jmodel' = [jmodel EXCEPT ![index] = block]
  /\ UNCHANGED jsets

\* Journal::load over a device that does not fail
JournalLoadClean == JournalLoad(Len(ReplayWrites(jdev)), 0)

\* Journal::get(index): pull(index + 2)
JournalGet(index) ==
  /\ jopen
  /\ jlast' = [idx |-> index, blk |-> Pull(jdev, index + 2), res |-> "got"]
  /\ jret' = "get_ok"
  /\ UNCHANGED <<jdev, jopen, jsets, jbefore, jeffect, jmodel>>

JLoadStep == \E f \in 0..Ratio, k \in 0..LowerCells : JournalLoad(f, k)

JSetStep ==
  \E index \in JIndex, block \in JBlocks, f \in 0..3 * Ratio, k \in 0..LowerCells :
    JournalSetAgain(index, block, f, k)

\* blocks written over a device that does not fail: the two of tests::tear
\* and one whose cells differ
JCleanBlocks == JBlocks \cup {[c \in 1..UpperCells |-> IF c = 1 THEN 1 ELSE 0]}

JSetCleanStep ==
  \E index \in JIndex, block \in JCleanBlocks : JournalSetClean(index, block)

JGetStep == \E index \in JIndex : JournalGet(index)

JSetOnceStep ==
  \E index \in JIndex, block \in JBlocks, f \in 0..3 * Ratio, k \in 0..LowerCells :
    JournalSetOnce(index, block, f, k)

(***************************************************************************)
(* quoin-gpt                                                               *)
(***************************************************************************)

\* a word of a block; the bytes past what was written are zero
Word(b, i) == IF i <= Len(b) THEN b[i] ELSE 0

\* CRC-32 (IEEE) of a run of words: a checksum without collisions
Crc32(words) == << words >>

\* Range::includes
Includes(r, block) == block >= r.first /\ block <= r.last

\* Range::contains
Contains(r, range) == Includes(r, range.first) /\ Includes(r, range.last)

\* Range::overlaps
Overlaps(r, range) == Includes(r, range.first) \/ Includes(r, range.last)

\* words of an encoded Header: one per field, usable taking two
HeaderWords == 14
\* the word of other_lba, which holds byte 32 of the header
OtherLbaWord == 7

\* words of an encoded Entry: kind, guid, data.first, data.last, attr, name
EntryWords == 5 + NameCap

\* Codec::encode for Entry, fields in declaration order
EncodeEntry(e) ==
  <<e.kind, e.guid, e.data.first, e.data.last, e.attr>> \o e.name

\* Codec::decode for Entry
DecodeEntry(w) ==
  [kind |-> w[1], guid |-> w[2], data |-> [first |-> w[3], last |-> w[4]],
   attr |-> w[5], name |-> SubSeq(w, 6, EntryWords)]

\* Codec::encode for Header, fields in declaration order
EncodeHeader(h) ==
  <<h.signature, h.revision, h.size, h.crc32, h.reserved, h.this_lba,
    h.other_lba, h.usable.first, h.usable.last, h.guid, h.elba, h.ecount,
    h.esize, h.ecrc32>>

\* Codec::decode for Header, from the first bytes of a block
DecodeHeader(b) ==
  [signature |-> Word(b, 1), revision |-> Word(b, 2), size |-> Word(b, 3),
   crc32 |-> Word(b, 4), reserved |-> Word(b, 5), this_lba |-> Word(b, 6),
   other_lba |-> Word(b, 7),
   usable |-> [first |-> Word(b, 8), last |-> Word(b, 9)],
   guid |-> Word(b, 10), elba |-> Word(b, 11), ecount |-> Word(b, 12),
   esize |-> Word(b, 13), ecrc32 |-> Word(b, 14)]

\* the entries buffer of save: every entry encoded, in order
RECURSIVE EncodeAll(_)
EncodeAll(entries) ==
  IF entries = << >> THEN << >>
  ELSE EncodeEntry(Head(entries)) \o EncodeAll(Tail(entries))

\* eblocks.len() of save: the buffer padded to MIN_SIZE and to whole blocks
EBlocks(n) ==
  LET bytes == IF n * EntrySize < MinSize THEN MinSize ELSE n * EntrySize
  IN (bytes + BlockSize - 1) \div BlockSize

\* eblocks[i] of save, i from 0: that block of the encoded buffer
EBlock(ebuffer, i) ==
  LET perBlock == EntriesPerBlock * EntryWords
      hi == IF Len(ebuffer) < (i + 1) * perBlock
              THEN Len(ebuffer) ELSE (i + 1) * perBlock
  IN SubSeq(ebuffer, i * perBlock + 1, hi)

\* EntriesExt::validate, mutated: each pair of entries is compared once
ValidateOnce(entries, urange) ==
  LET n == Len(entries)
      RECURSIVE Go(_, _)
      Go(i, j) ==
        IF i > n THEN "ok"
        ELSE IF j = 0 THEN
          IF entries[i].data.first > entries[i].data.last THEN "OutOfBounds"
          ELSE IF ~Contains(urange, entries[i].data) THEN "OutOfBounds"
          ELSE Go(i, i + 1)
        ELSE IF j > n THEN Go(i + 1, 0)
        ELSE IF Overlaps(entries[j].data, entries[i].data) THEN "OutOfBounds"
        ELSE IF entries[j].guid = entries[i].guid THEN "Conflict"
        ELSE Go(i, j + 1)
  IN Go(1, 0)

\* EntriesExt::validate: the first error met by the two nested loops
Validate(entries, urange) ==
  LET n == Len(entries)
      RECURSIVE Go(_, _)
      Go(i, j) ==
        IF i > n THEN "ok"
        ELSE IF j = 0 THEN
          IF entries[i].data.first > entries[i].data.last THEN "OutOfBounds"
          ELSE IF ~Contains(urange, entries[i].data) THEN "OutOfBounds"
          ELSE Go(i, 1)
        ELSE IF j > n THEN Go(i + 1, 0)
        ELSE IF j = i THEN Go(i, j + 1)
        ELSE IF Overlaps(entries[j].data, entries[i].data) THEN "OutOfBounds"
        ELSE IF entries[j].guid = entries[i].guid THEN "Conflict"
        ELSE Go(i, j + 1)
  IN Go(1, 0)

NoUsable == [some |-> FALSE, first |-> 0, last |-> 0]

SomeUsable(r) == [some |-> TRUE, first |-> r.first, last |-> r.last]

\* the header block save builds for the copy at this_lba
SaveHeader(this, other, urange, guid, elba, ecount, ecrc32) ==
  LET h == [signature |-> Signature, revision |-> Revision, size |-> HeaderSize,
            crc32 |-> 0, reserved |-> 0, this_lba |-> this, other_lba |-> other,
            usable |-> urange, guid |-> guid, elba |-> elba,
            ecount |-> ecount, esize |-> EntrySize, ecrc32 |-> ecrc32]
  IN EncodeHeader([h EXCEPT !.crc32 = Crc32(EncodeHeader(h))])

\* DeviceExt::save: primary header, primary entries, secondary entries,
\* secondary header
SaveOrder(hbuf, tbuf, k, ebuffer) ==
  << [at |-> 1, blk |-> hbuf] >>
  \o [i \in 1..k |-> [at |-> 2 + (i - 1), blk |-> EBlock(ebuffer, i - 1)]]
  \o [i \in 1..k |-> [at |-> DevLen - 1 - k + (i - 1), blk |-> EBlock(ebuffer, i - 1)]]
  \o << [at |-> DevLen - 1, blk |-> tbuf] >>

\* DeviceExt::save, mutated: the primary header is written before the
\* entries are validated
SaveWritesFirst(guid, usable, entries) ==
  LET k == EBlocks(Len(entries))
      mrange == [first |-> 2 + k, last |-> DevLen - 2 - k]
      urange == IF usable.some
                  THEN [first |-> usable.first, last |-> usable.last]
                  ELSE mrange
      ebuffer == EncodeAll(entries)
      ecrc32 == Crc32(ebuffer)
      checked == Validate(entries, urange)
      hbuf == SaveHeader(1, DevLen - 1, urange, guid, 2, Len(entries), ecrc32)
  IN IF DevLen <= 3 + k * 2 THEN [res |-> "OutOfBounds", writes |-> << >>]
     ELSE IF ~Contains(mrange, urange) THEN [res |-> "OutOfBounds", writes |-> << >>]
     ELSE IF checked # "ok" THEN [res |-> checked, writes |-> << [at |-> 1, blk |-> hbuf] >>]
     ELSE [res |-> "ok",
           writes |-> SaveOrder(
             hbuf,
             SaveHeader(DevLen - 1, 1, urange, guid, DevLen - 1 - k,
                        Len(entries), ecrc32),
             k, ebuffer)]

\* DeviceExt::save up to its writes: the error of its checks, or the block
\* writes it will issue
Save(guid, usable, entries) ==
  LET k == EBlocks(Len(entries))
      mrange == [first |-> 2 + k, last |-> DevLen - 2 - k]
      urange == IF usable.some
                  THEN [first |-> usable.first, last |-> usable.last]
                  ELSE mrange
      ebuffer == EncodeAll(entries)
      ecrc32 == Crc32(ebuffer)
      checked == Validate(entries, urange)
  IN IF DevLen <= 3 + k * 2 THEN [res |-> "OutOfBounds", writes |-> << >>]
     ELSE IF ~Contains(mrange, urange) THEN [res |-> "OutOfBounds", writes |-> << >>]
     ELSE IF checked # "ok" THEN [res |-> checked, writes |-> << >>]
     ELSE [res |-> "ok",
           writes |-> SaveOrder(
             SaveHeader(1, DevLen - 1, urange, guid, 2, Len(entries), ecrc32),
             SaveHeader(DevLen - 1, 1, urange, guid, DevLen - 1 - k,
                        Len(entries), ecrc32),
             k, ebuffer)]

\* the device after the first n of the block writes; a failing set of the
\* device leaves its block as it was
ApplyBlockWrites(d, writes, n) ==
  LET RECURSIVE Go(_, _)
      Go(dd, i) ==
        IF i > n \/ i > Len(writes) THEN dd
        ELSE Go([dd EXCEPT ![writes[i].at] = writes[i].blk], i + 1)
  IN Go(d, 1)

NoTable(res) == [res |-> res, header |-> DecodeHeader(<< >>), entries |-> << >>]

\* the entry slots of one block that are not all zero, decoded
SlotsOf(b) ==
  LET n == (Len(b) + EntryWords - 1) \div EntryWords
      m == IF n > EntriesPerBlock THEN EntriesPerBlock ELSE n
  IN [s \in 1..m |->
        DecodeEntry([w \in 1..EntryWords |-> Word(b, (s - 1) * EntryWords + w)])]

\* the entries of the blocks elba .. elba + count - 1: every slot decoded,
\* empty kinds filtered out
RECURSIVE DecodeBlocks(_, _, _)
DecodeBlocks(d, elba, count) ==
  IF count = 0 THEN << >>
  ELSE SelectSeq(SlotsOf(d[elba]), LAMBDA e : e.kind # EmptyKind)
       \o DecodeBlocks(d, elba + 1, count - 1)

\* the first `words` words of the buffer read from elba on
BufferWords(d, elba, words) ==
  LET perBlock == EntriesPerBlock * EntryWords
  IN [w \in 1..words |->
        Word(d[elba + (w - 1) \div perBlock], ((w - 1) % perBlock) + 1)]

\* DeviceExt::load: the CRC over the first ecount entries matches
LoadEntriesOk(d, header, count) ==
  Crc32(BufferWords(d, header.elba, header.ecount * EntryWords)) = header.ecrc32

\* DeviceExt::load(index): per-copy validation; bad holds the blocks whose
\* read fails
LoadTable(d, index, bad) ==
  LET erange == [first |-> 2, last |-> DevLen - 2]
      other  == IF index = 1 THEN DevLen - 1 ELSE 1
      header == DecodeHeader(d[index])
      count  == (header.ecount + EntriesPerBlock - 1) \div EntriesPerBlock
      urange == [first |-> erange.first + count, last |-> erange.last - count]
      entries == DecodeBlocks(d, header.elba, count)
      checked == Validate(entries, urange)
  IN IF index \in bad THEN NoTable("Parent")
     ELSE IF header.signature # Signature THEN NoTable("none")
     ELSE IF header.revision # Revision THEN NoTable("Unsupported")
     ELSE IF header.size # HeaderSize THEN NoTable("Unsupported")
     ELSE IF header.esize # EntrySize THEN NoTable("Unsupported")
     ELSE IF header.reserved # 0 THEN NoTable("Unsupported")
     ELSE IF Crc32(EncodeHeader([header EXCEPT !.crc32 = 0])) # header.crc32
       THEN NoTable("Corrupted")
     ELSE IF header.this_lba # index THEN NoTable("OutOfBounds")
     ELSE IF header.other_lba # other THEN NoTable("OutOfBounds")
     ELSE IF header.usable.first > header.usable.last THEN NoTable("OutOfBounds")
     ELSE IF ~Contains(urange, header.usable) THEN NoTable("OutOfBounds")
     ELSE IF ~Includes(erange, header.elba) THEN NoTable("OutOfBounds")
     ELSE IF count > 0 /\ Includes(urange, header.elba) THEN NoTable("OutOfBounds")
     ELSE IF \E i \in 0..count - 1 : header.elba + i \in bad THEN NoTable("Parent")
     ELSE IF ~LoadEntriesOk(d, header, count) THEN NoTable("Corrupted")
     ELSE IF checked # "ok" THEN NoTable(checked)
     ELSE [res |-> "some", header |-> header, entries |-> entries]

NoDisk == [live |-> FALSE, guid |-> 0, usable |-> [first |-> 0, last |-> 0],
           entries |-> << >>]

DiskOf(table) ==
  [live |-> TRUE, guid |-> table.header.guid, usable |-> table.header.usable,
   entries |-> table.entries]

\* the match of Disk::load, mutated: an error of either copy wins
ResolveErrorsFirst(head, tail) ==
  IF head.res \notin {"some", "none"} THEN [res |-> head.res, disk |-> NoDisk]
  ELSE IF tail.res \notin {"some", "none"} THEN [res |-> tail.res, disk |-> NoDisk]
  ELSE IF head.res = "some" THEN [res |-> "some", disk |-> DiskOf(head)]
  ELSE IF tail.res = "some" THEN [res |-> "some", disk |-> DiskOf(tail)]
  ELSE [res |-> "none", disk |-> NoDisk]

\* the match of Disk::load, mutated: the entries CRCs are not compared
ResolveNoCrcCheck(head, tail) ==
  IF head.res = "none" /\ tail.res = "none" THEN [res |-> "none", disk |-> NoDisk]
  ELSE IF head.res = "some" /\ tail.res = "some" THEN
    IF head.header.guid # tail.header.guid THEN [res |-> "Conflict", disk |-> NoDisk]
    ELSE [res |-> "some", disk |-> DiskOf(head)]
  ELSE IF head.res = "some" THEN [res |-> "some", disk |-> DiskOf(head)]
  ELSE IF tail.res = "some" THEN [res |-> "some", disk |-> DiskOf(tail)]
  ELSE IF head.res # "none" THEN [res |-> head.res, disk |-> NoDisk]
  ELSE [res |-> tail.res, disk |-> NoDisk]

\* the match of Disk::load, mutated: the secondary's error is returned first
ResolveTailErrorFirst(head, tail) ==
  IF head.res = "none" /\ tail.res = "none" THEN [res |-> "none", disk |-> NoDisk]
  ELSE IF head.res = "some" /\ tail.res = "some" THEN
    IF head.header.guid # tail.header.guid THEN [res |-> "Conflict", disk |-> NoDisk]
    ELSE IF head.header.ecrc32 # tail.header.ecrc32
      THEN [res |-> "Conflict", disk |-> NoDisk]
    ELSE [res |-> "some", disk |-> DiskOf(head)]
  ELSE IF head.res = "some" THEN [res |-> "some", disk |-> DiskOf(head)]
  ELSE IF tail.res = "some" THEN [res |-> "some", disk |-> DiskOf(tail)]
  ELSE IF tail.res # "none" THEN [res |-> tail.res, disk |-> NoDisk]
  ELSE [res |-> head.res, disk |-> NoDisk]

\* the match (head, tail) of Disk::load
Resolve(head, tail) ==
  IF head.res = "none" /\ tail.res = "none" THEN [res |-> "none", disk |-> NoDisk]
  ELSE IF head.res = "some" /\ tail.res = "some" THEN
    IF head.header.guid # tail.header.guid THEN [res |-> "Conflict", disk |-> NoDisk]
    ELSE IF head.header.ecrc32 # tail.header.ecrc32
      THEN [res |-> "Conflict", disk |-> NoDisk]
    ELSE [res |-> "some", disk |-> DiskOf(head)]
  ELSE IF head.res = "some" THEN [res |-> "some", disk |-> DiskOf(head)]
  ELSE IF tail.res = "some" THEN [res |-> "some", disk |-> DiskOf(tail)]
  ELSE IF head.res # "none" THEN [res |-> head.res, disk |-> NoDisk]
  ELSE [res |-> tail.res, disk |-> NoDisk]

\* Disk::load: the secondary copy is read first, then the primary
DiskLoad(d, bad) ==
  Resolve(LoadTable(d, 1, bad), LoadTable(d, DevLen - 1, bad))

\* the name loop of Disk::add over the UTF-16 code units of name: at the
\* first i where `i > buff.len()` holds it returns OutOfBounds, at the first
\* i where buff[i] is past the buffer it panics, else buff[i] = c
NameEncode(name) ==
  LET stops == {i \in 0..Len(name) - 1 : i > NameCap \/ i >= NameCap}
      first == CHOOSE i \in stops : \A j \in stops : i <= j
      buff == [c \in 1..NameCap |-> IF c <= Len(name) THEN name[c] ELSE 0]
  IN IF stops = {} THEN [res |-> "ok", buff |-> buff]
     ELSE IF first > NameCap THEN [res |-> "OutOfBounds", buff |-> buff]
     ELSE [res |-> "panic", buff |-> buff]

\* Disk::add, mutated: the pushed entry stays when save fails
AddKeepsEntry(entries, entry, result) == Append(entries, entry)

\* Disk::add: self.entries after the push, the save and the pop on error
AddEntries(entries, entry, result) ==
  IF result # "ok" THEN entries ELSE Append(entries, entry)

NoFlags == [overlap |-> FALSE, shared |-> FALSE, fits |-> FALSE, nameLen |-> 0,
            word |-> 0, bad |-> {}, hit |-> {}]

\* what an operation leaves in gret: its name and result, the number of
\* block writes it set out to make, and what its inputs were like
Ret(op, res, total, flags) ==
  [op |-> op, res |-> res, total |-> total, flags |-> flags]

GInit ==
  /\ dev = [b \in 0..DevLen - 1 |-> << >>]
  /\ disk = NoDisk
  /\ gret = Ret("none", "none", 0, NoFlags)
  /\ faults = 0
  /\ crashed = FALSE
  /\ formatted = 0
  /\ synced = FALSE

\* Disk::load, mutated: a primary copy that yields no table is rewritten
\* from the secondary header
LoadRepairs(bad) ==
  LET r == DiskLoad(dev, bad)
  IN /\ disk' = r.disk
     /\ gret' = Ret("load", r.res, 0,
                    [NoFlags EXCEPT !.bad = bad, !.word = gret.flags.word,
                                    !.hit = gret.flags.hit])
     /\ synced' = FALSE
     /\ dev' = IF r.res = "some" /\ LoadTable(dev, 1, bad).res # "some"
                THEN [dev EXCEPT ![1] = dev[DevLen - 1]]
                ELSE dev
     /\ UNCHANGED <<faults, crashed, formatted>>

\* Disk::load(device)
Load(bad) ==
  LET r == DiskLoad(dev, bad)
  IN /\ disk' = r.disk
     /\ gret' = Ret("load", r.res, 0,
                    [NoFlags EXCEPT !.bad = bad, !.word = gret.flags.word,
                                    !.hit = gret.flags.hit])
     /\ synced' = FALSE
     /\ UNCHANGED <<dev, faults, crashed, formatted>>

\* Disk::format(device) with guid its Uuid::new_v4(), a GUID no header on
\* the device holds: save, then load and unwrap.  The device fails the write
\* that follows `cut` block writes.
Format(guid, bad) ==
  LET sv == Save(guid, NoUsable, << >>)
      total == Len(sv.writes)
  IN /\ faults = 0
     /\ ~crashed
     /\ guid \notin {DecodeHeader(dev[1]).guid, DecodeHeader(dev[DevLen - 1]).guid}
     /\ \E cut \in 0..total :
          LET d2 == ApplyBlockWrites(dev, sv.writes, cut)
              r == DiskLoad(d2, bad)
              res == IF sv.res # "ok" THEN sv.res
                     ELSE IF cut < total THEN "Parent"
                     ELSE IF r.res = "some" THEN "ok"
                     ELSE IF r.res = "none" THEN "panic"
                     ELSE r.res
          IN /\ (cut < total => bad = {})
             /\ dev' = d2
             /\ disk' = IF res = "ok" THEN r.disk ELSE NoDisk
             /\ synced' = (res = "ok")
             /\ crashed' = (sv.res = "ok" /\ cut < total)
             /\ formatted' = IF res = "ok" THEN r.disk.guid ELSE formatted
             /\ gret' = Ret("format", res, total, NoFlags)
     /\ UNCHANGED faults

\* two ranges share a block
ShareBlock(a, b) == \E x \in a.first..a.last : x \in b.first..b.last

\* Disk::add(kind, start..end, attr, name); guid is the Uuid::new_v4() of
\* the entry.  A panic ends the program: the Disk is gone, the device stays.
Add(kind, start, end, attr, name, guid) ==
  LET enc == NameEncode(name)
      entry == [kind |-> kind, guid |-> guid,
                data |-> [first |-> start, last |-> end - 1],
                attr |-> attr, name |-> enc.buff]
      sv == Save(disk.guid, SomeUsable(disk.usable), Append(disk.entries, entry))
      total == IF enc.res = "ok" THEN Len(sv.writes) ELSE 0
      flags == [overlap |-> \E i \in 1..Len(disk.entries) :
                              ShareBlock(disk.entries[i].data, entry.data),
                shared  |-> \E i \in 1..Len(disk.entries) :
                              disk.entries[i].guid = guid,
                fits    |-> /\ start < end
                            /\ start >= disk.usable.first
                            /\ end - 1 <= disk.usable.last,
                nameLen |-> Len(name), word |-> 0, bad |-> {},
                hit     |-> {}]
  IN /\ disk.live
     /\ faults = 0
     /\ ~crashed
     /\ Len(disk.entries) < MaxEntries
     /\ \E cut \in 0..total :
          LET res == IF enc.res # "ok" THEN enc.res
                     ELSE IF sv.res # "ok" THEN sv.res
                     ELSE IF cut < total THEN "Parent"
                     ELSE "ok"
          IN /\ dev' = ApplyBlockWrites(dev, sv.writes, cut)
             /\ disk' = IF res = "panic" THEN NoDisk
                        ELSE [disk EXCEPT
                                !.entries = AddEntries(disk.entries, entry, res)]
             /\ synced' = (synced /\ res = "ok")
             /\ crashed' = (enc.res = "ok" /\ sv.res = "ok" /\ cut < total)
             /\ gret' = Ret("add", res, total, flags)
     /\ UNCHANGED <<faults, formatted>>

\* Disk::holes: the ranges start..end it returns, in order
Holes(d) ==
  LET RECURSIVE Go(_, _, _)
      Go(i, current, holes) ==
        IF i > Len(d.entries)
          THEN IF current.start # current.end THEN Append(holes, current) ELSE holes
          ELSE LET next == [start |-> current.start, end |-> d.entries[i].data.first]
                   rest == [start |-> d.entries[i].data.last + 1, end |-> current.end]
               IN Go(i + 1, rest,
                     IF next.start # next.end THEN Append(holes, next) ELSE holes)
  IN Go(1, [start |-> d.usable.first, end |-> d.usable.last + 1], << >>)

\* Disk::add(kind, blocks, attr, name) with a short name on a device that
\* completes every write: its result and the Disk it leaves
AddTo(d, kind, blocks, attr, guid) ==
  LET enc == NameEncode(<<102, 111, 111>>)
      entry == [kind |-> kind, guid |-> guid,
                data |-> [first |-> blocks.start, last |-> blocks.end - 1],
                attr |-> attr, name |-> enc.buff]
      sv == Save(d.guid, SomeUsable(d.usable), Append(d.entries, entry))
      res == IF enc.res # "ok" THEN enc.res ELSE sv.res
  IN [res |-> res, disk |-> [d EXCEPT !.entries = AddEntries(d.entries, entry, res)]]

\* raw writes follow a completed format, with the Disk dropped, as in the
\* tests, each on a header block no raw write touched before; they and a
\* save cut short end the behaviour's formats and adds
FaultReady ==
  /\ faults < MaxFaults
  /\ ~crashed
  /\ faults > 0 \/ (gret.op = "format" /\ gret.res = "ok")

\* device.set(index, &[0; SIZE]) on block 1 or the last block, as in the
\* tests zero_head, zero_tail and zero_both
Zero(index) ==
  /\ FaultReady
  /\ index \notin gret.flags.hit
  /\ dev[index] # << >>
  /\ dev' = [dev EXCEPT ![index] = << >>]
  /\ disk' = NoDisk
  /\ faults' = faults + 1
  /\ synced' = FALSE
  /\ UNCHANGED <<crashed, formatted>>
  /\ gret' = Ret("zero", "raw", 1,
               [NoFlags EXCEPT !.word = gret.flags.word,
                               !.hit = gret.flags.hit \cup {index}])

\* the junk a corrupted CRC field holds: the CRC of no run of words
JunkCrc == Crc32(<< -1 >>)

\* one field of the header at index overwritten with another value, as in
\* the tests corrupt_head, corrupt_tail and corrupt_both; a second
\* corruption hits the same field of the other copy
Corrupt(index, w, v) ==
  LET new == IF w \in {4, 14} THEN JunkCrc ELSE v
  IN /\ FaultReady
     /\ index \notin gret.flags.hit
     /\ gret.op # "zero"
     /\ gret.flags.word \in {0, w}
     /\ Len(dev[index]) = HeaderWords
     /\ dev[index][w] # new
     /\ dev' = [dev EXCEPT ![index][w] = new]
     /\ disk' = NoDisk
     /\ faults' = faults + 1
     /\ synced' = FALSE
     /\ UNCHANGED <<crashed, formatted>>
     /\ gret' = Ret("corrupt", "raw", 1,
                  [NoFlags EXCEPT !.word = w,
                                  !.hit = gret.flags.hit \cup {index}])

\* the first block past the primary entries array of an empty table
FirstUsable == 2 + EBlocks(0)

DiskGuids == {11, 12}
\* kind, partition GUID and attributes of the entries added
KindGuids == {<<7, 21, 0>>, <<7, 22, 3>>, <<EmptyKind, 21, 0>>}
Names == {[c \in 1..n |-> 102] : n \in {NameCap, MaxNameLen}}
ReadFailures == {{}, {1}, {DevLen - 1}, {2}}
\* start..end of the ranges added: one block, the block after it, a range
\* that strictly contains that one, a range that leaves the usable blocks,
\* an empty range
AddRanges ==
  { <<FirstUsable, FirstUsable + 1>>, <<FirstUsable + 1, FirstUsable + 2>>,
    <<FirstUsable, FirstUsable + 3>>,
    <<FirstUsable + 2, DevLen - 2>>, <<FirstUsable + 1, FirstUsable + 1>> }

LoadStep == \E bad \in ReadFailures : Load(bad)

FormatStep == \E guid \in DiskGuids, bad \in ReadFailures : Format(guid, bad)

AddStep ==
  \E kg \in KindGuids, r \in AddRanges, name \in Names :
    Add(kg[1], r[1], r[2], kg[3], name, kg[2])

ZeroStep == \E index \in {1, DevLen - 1} : Zero(index)

CorruptStep ==
  \E index \in {1, DevLen - 1}, w \in 1..HeaderWords :
    Corrupt(index, w, IF dev[index][w] = 255 THEN 0 ELSE 255)

GIdle == UNCHANGED gvars

JIdle == UNCHANGED jvars

\* no Partition handle exists
NoPartOp == [op |-> "none", res |-> "none", at |-> 0, blk |-> << >>]

PInit ==
  /\ parts = << >>
  /\ pret = NoPartOp
  /\ psets = 0

PIdle == UNCHANGED pvars

GNext ==
  (LoadStep \/ FormatStep \/ AddStep \/ ZeroStep \/ CorruptStep) /\ JIdle /\ PIdle /\ WIdle

\* a zeroed inner device with no Journal, a zeroed device with no Disk
Init == JInit /\ GInit /\ PInit /\ HInit /\ TInit /\ CInit

SpecGpt == Init /\ [][GNext]_vars

SpecJournalReopen ==
  Init /\ [][(JLoadStep \/ JSetOnceStep) /\ GIdle /\ PIdle /\ WIdle]_vars

SpecJournal ==
  Init /\ [][(JLoadStep \/ JSetStep) /\ GIdle /\ PIdle /\ WIdle]_vars

SpecJournalClean ==
  Init /\ [][(JournalLoadClean \/ JSetCleanStep \/ JGetStep) /\ GIdle /\ PIdle /\ WIdle]_vars

(***************************************************************************)
(* A device whose table was written by another GPT implementation          *)
(***************************************************************************)

\* A zeroed device on which another writer laid out a table with k blocks
\* per entries array, both headers and CRCs consistent: the raw device.set
\* calls of save without the checks save makes first.
Craft(guid, usable, entries, k) ==
  LET ebuffer == EncodeAll(entries)
      ecrc32 == Crc32(ebuffer)
      writes == SaveOrder(
                  SaveHeader(1, DevLen - 1, usable, guid, 2, Len(entries), ecrc32),
                  SaveHeader(DevLen - 1, 1, usable, guid, DevLen - 1 - k,
                             Len(entries), ecrc32),
                  k, ebuffer)
  IN /\ dev' = ApplyBlockWrites([b \in 0..DevLen - 1 |-> << >>], writes, Len(writes))
     /\ disk' = NoDisk
     /\ gret' = Ret("craft", "raw", Len(writes), NoFlags)
     /\ synced' = FALSE
     /\ UNCHANGED <<faults, crashed, formatted>>

\* usable ranges another writer may declare: the one save computes, one
\* block inside it, and the widest that clear one or no entries block
CraftUsable ==
  { [first |-> FirstUsable, last |-> DevLen - 2 - EBlocks(0)],
    [first |-> FirstUsable + 1, last |-> FirstUsable + 1],
    [first |-> 3, last |-> DevLen - 3],
    [first |-> 2, last |-> DevLen - 2] }

\* an entry of one block at `first`
CraftEntry(guid, first) ==
  [kind |-> 7, guid |-> guid, data |-> [first |-> first, last |-> first],
   attr |-> 0, name |-> [c \in 1..NameCap |-> 0]]

\* entries lists another writer may store
CraftEntries ==
  LET a == CraftEntry(21, FirstUsable)
      b == CraftEntry(22, FirstUsable + 1)
  IN { << >>, <<a>>, <<b>>, <<a, b>>, <<b, a>> }

CraftStep ==
  \E guid \in DiskGuids, usable \in CraftUsable, entries \in CraftEntries,
     k \in 1..EBlocks(0) :
    Craft(guid, usable, entries, k)

\* A table whose entries blocks hold more than its headers count: `extra`
\* follows the entries in the blocks, past entries_count * 128 bytes, and
\* the headers' ecount and ecrc32 are those of `entries` alone.
CraftSlack(guid, usable, entries, extra, k) ==
  LET ebuffer == EncodeAll(entries \o extra)
      ecrc32 == Crc32(EncodeAll(entries))
      writes == SaveOrder(
                  SaveHeader(1, DevLen - 1, usable, guid, 2, Len(entries), ecrc32),
                  SaveHeader(DevLen - 1, 1, usable, guid, DevLen - 1 - k,
                             Len(entries), ecrc32),
                  k, ebuffer)
  IN /\ dev' = ApplyBlockWrites([b \in 0..DevLen - 1 |-> << >>], writes, Len(writes))
     /\ disk' = NoDisk
     /\ gret' = Ret("craft", "raw", Len(writes), NoFlags)
     /\ synced' = FALSE
     /\ UNCHANGED <<faults, crashed, formatted>>

CraftSlackStep ==
  \E guid \in DiskGuids, k \in 1..EBlocks(0) :
    CraftSlack(guid, [first |-> FirstUsable, last |-> DevLen - 2 - EBlocks(0)],
               << CraftEntry(21, FirstUsable) >>,
               << CraftEntry(22, FirstUsable + 1) >>, k)

SpecGptForeign ==
  Init /\ [][(CraftStep \/ CraftSlackStep \/ LoadStep) /\ JIdle /\ PIdle /\ WIdle]_vars

(***************************************************************************)
(* Partition: a window on the device of its Disk                           *)
(***************************************************************************)

\* Rc::strong_count, mutated: the Rc of the Disk is not counted
RcCountNoDisk == Len(parts)

\* Rc::strong_count of the device: the Disk and every Partition hold one
RcCount == (IF disk.live THEN 1 ELSE 0) + Len(parts)

\* Partition::len
PartLen(entry) == entry.data.last - entry.data.first + 1

\* the blocks passed to Partition::set
PartBlocks == {<<8>>, <<9>>}

\* Disk::load, Disk::format and Disk::add while no Partition is alive, on a
\* device that does not fail and before any Partition::set
DiskStep ==
  /\ parts = << >>
  /\ psets = 0
  /\ LoadStep \/ FormatStep \/ AddStep
  /\ gret'.res \in {"ok", "some", "none"}
  /\ gret'.flags.bad = {}
  /\ ~crashed'
  /\ pret' = NoPartOp
  /\ UNCHANGED <<parts, psets>>

\* Disk::add while a Partition is alive: Rc::get_mut returns None and the
\* unwrap panics, which ends the program
AddShared ==
  /\ disk.live
  /\ parts # << >>
  /\ disk' = NoDisk
  /\ parts' = << >>
  /\ gret' = Ret("add", "panic", 0, NoFlags)
  /\ synced' = FALSE
  /\ pret' = NoPartOp
  /\ UNCHANGED <<dev, faults, crashed, formatted, psets>>

\* Disk::partitions: one Partition per entry, each with a clone of the Rc
Partitions ==
  /\ disk.live
  /\ parts = << >>
  /\ disk.entries # << >>
  /\ parts' = disk.entries
  /\ pret' = NoPartOp
  /\ UNCHANGED <<gvars, psets>>

\* a Partition goes out of scope
DropPart(i) ==
  /\ parts' = [n \in 1..Len(parts) - 1 |-> IF n < i THEN parts[n] ELSE parts[n + 1]]
  /\ pret' = NoPartOp
  /\ UNCHANGED <<gvars, psets>>

\* the Disk goes out of scope while Partitions live on
DropDisk ==
  /\ disk.live
  /\ parts # << >>
  /\ disk' = NoDisk
  /\ gret' = Ret("drop", "ok", 0, NoFlags)
  /\ synced' = FALSE
  /\ pret' = NoPartOp
  /\ UNCHANGED <<dev, faults, crashed, formatted, parts, psets>>

\* Partition::get(index) on parts[i], index < len: Rc::get_mut(..).unwrap()
\* panics unless this Partition is the only holder of the device
PartGet(i, index) ==
  LET at == index + parts[i].data.first
  IN /\ index < PartLen(parts[i])
     /\ IF RcCount = 1
          THEN /\ pret' = [op |-> "get", res |-> "ok", at |-> at, blk |-> dev[at]]
               /\ UNCHANGED <<gvars, parts, psets>>
          ELSE /\ pret' = [op |-> "get", res |-> "panic", at |-> at, blk |-> << >>]
               /\ disk' = NoDisk
               /\ parts' = << >>
               /\ synced' = FALSE
               /\ UNCHANGED <<dev, gret, faults, crashed, formatted, psets>>

\* Partition::set(index, block) on parts[i], index < len
PartSet(i, index, block) ==
  LET at == index + parts[i].data.first
  IN /\ index < PartLen(parts[i])
     /\ psets < MaxPartSets
     /\ psets' = psets + 1
     /\ IF RcCount = 1
          THEN /\ pret' = [op |-> "set", res |-> "ok", at |-> at, blk |-> block]
               /\ dev' = [dev EXCEPT ![at] = block]
               /\ UNCHANGED <<disk, gret, faults, crashed, formatted, synced, parts>>
          ELSE /\ pret' = [op |-> "set", res |-> "panic", at |-> at, blk |-> block]
               /\ disk' = NoDisk
               /\ parts' = << >>
               /\ synced' = FALSE
               /\ UNCHANGED <<dev, gret, faults, crashed, formatted>>

DropPartStep == \E i \in 1..Len(parts) : DropPart(i)

PartGetStep == \E i \in 1..Len(parts), index \in 0..DevLen - 1 : PartGet(i, index)

PartSetStep ==
  \E i \in 1..Len(parts), index \in 0..DevLen - 1, block \in PartBlocks :
    PartSet(i, index, block)

PNext ==
  (DiskStep \/ AddShared \/ Partitions \/ DropPartStep \/ DropDisk
     \/ PartGetStep \/ PartSetStep) /\ JIdle /\ WIdle

SpecPartition == Init /\ [][PNext]_vars

(***************************************************************************)
(* The integrity wrapper over a device that is read through a Corrupt and  *)
(* written behind its back, and over a device left alone                   *)
(***************************************************************************)

\* the journal, the Disk and its Partitions are left alone
StackIdle == GIdle /\ JIdle /\ PIdle

SpecHmac ==
  Init /\ [][(HSetStep \/ HGetStep \/ HGetCorruptStep \/ HTamperStep)
               /\ StackIdle /\ TIdle /\ CIdle]_vars

SpecHmacClean ==
  Init /\ [][(HSetStep \/ HGetStep) /\ StackIdle /\ TIdle /\ CIdle]_vars

SpecTear == Init /\ [][(TSetStep \/ TGetStep) /\ StackIdle /\ HIdle /\ CIdle]_vars

SpecCrypt ==
  Init /\ [][(CNewStep \/ CSetStep \/ CGetStep) /\ StackIdle /\ HIdle /\ TIdle]_vars

\* C1: when a Journal is re-loaded after a set, completed or interrupted,
\* that was issued on a freshly loaded Journal, the block written holds its
\* value from before the set or the block passed to set, and every other
\* block holds its value from before the set.
C1_CrashAtomic ==
  [][(jret' = "load_ok" /\ jlast.res # "none") =>
       \A j \in JIndex :
         IF j = jlast.idx
           THEN Logical(jdev')[j] \in {jbefore[j], jlast.blk}
           ELSE Logical(jdev')[j] = jbefore[j]]_vars

\* a re-load that made the value of a failed set effective
C1_Witness == jret = "load_ok" /\ jeffect = "new"

\* C2: whatever sets and loads went before, failed ones included, after a
\* successful load no logical block is torn: each holds, whole, the initial
\* block or a block that a set was asked to write (the blocks of JBlocks).
C2_NoTornAfterLoad ==
  jret = "load_ok" => \A j \in JIndex : Logical(jdev)[j] \in JBlocks

\* the per-copy validations Disk::load made, with the reads that failed
HeadSeen == LoadTable(dev, 1, gret.flags.bad)
TailSeen == LoadTable(dev, DevLen - 1, gret.flags.bad)

\* C3: a save over a device that holds a valid GPT, cut short after some of
\* its block writes, leaves a copy that passes per-copy validation.
C3_SaveLeavesACopy ==
  [][(crashed' /\ ~crashed /\ DiskLoad(dev, {}).res = "some") =>
       (\/ LoadTable(dev', 1, {}).res = "some"
        \/ LoadTable(dev', DevLen - 1, {}).res = "some")]_vars

\* C4: when one copy passes per-copy validation and the other is absent or
\* fails, Disk::load returns the Disk of the copy that passed; after a format
\* and one zeroed or corrupted header it returns the formatted GUID.
C4_SingleCopy ==
  gret.op = "load" =>
    /\ (HeadSeen.res = "some" /\ TailSeen.res # "some") =>
         (gret.res = "some" /\ disk = DiskOf(HeadSeen))
    /\ (TailSeen.res = "some" /\ HeadSeen.res # "some") =>
         (gret.res = "some" /\ disk = DiskOf(TailSeen))
    /\ (faults = 1 /\ gret.flags.bad = {}) =>
         (gret.res = "some" /\ disk.live /\ disk.guid = formatted)

\* a load that found the primary header zeroed or corrupted and used the
\* secondary
C4_Witness ==
  /\ gret.op = "load"
  /\ faults = 1
  /\ gret.flags.bad = {}
  /\ HeadSeen.res \in {"none", "Corrupted", "Unsupported"}
  /\ gret.res = "some"
  /\ disk.guid = formatted

\* C5: when both copies pass per-copy validation, Disk::load returns
\* Conflict if their disk GUIDs or their entries CRCs differ, and the Disk of
\* the primary copy otherwise.
C5_Conflict ==
  (gret.op = "load" /\ HeadSeen.res = "some" /\ TailSeen.res = "some") =>
    IF \/ HeadSeen.header.guid # TailSeen.header.guid
       \/ HeadSeen.header.ecrc32 # TailSeen.header.ecrc32
      THEN gret.res = "Conflict" /\ ~disk.live
      ELSE gret.res = "some" /\ disk = DiskOf(HeadSeen)

\* a load that met two valid copies of one disk with different entries
C5_Witness ==
  /\ gret.op = "load"
  /\ HeadSeen.res = "some"
  /\ TailSeen.res = "some"
  /\ HeadSeen.header.guid = TailSeen.header.guid
  /\ HeadSeen.header.ecrc32 # TailSeen.header.ecrc32
  /\ gret.res = "Conflict"

\* C6: Disk::load returns Ok(None) exactly when both copies lack the
\* signature; when neither copy yields a table and one fails, it returns the
\* primary's error if the primary failed and the secondary's otherwise:
\* Corrupted once byte 32 of a formatted header was changed in both copies.
C6_NoUsableCopy ==
  gret.op = "load" =>
    /\ gret.res = "none" <=> (HeadSeen.res = "none" /\ TailSeen.res = "none")
    /\ gret.flags.bad = {} =>
         (gret.res = "none" <=>
            /\ Word(dev[1], 1) # Signature
            /\ Word(dev[DevLen - 1], 1) # Signature)
    /\ (HeadSeen.res \notin {"some", "none"} /\ TailSeen.res # "some") =>
         (gret.res = HeadSeen.res /\ ~disk.live)
    /\ (HeadSeen.res = "none" /\ TailSeen.res \notin {"some", "none"}) =>
         (gret.res = TailSeen.res /\ ~disk.live)
    /\ (faults = 2 /\ gret.flags.word = OtherLbaWord /\ gret.flags.bad = {}) =>
         gret.res = "Corrupted"

\* the same header field corrupted in both copies: Corrupted
C6_Witness ==
  /\ gret.op = "load"
  /\ faults = 2
  /\ gret.flags.bad = {}
  /\ gret.flags.word = OtherLbaWord
  /\ HeadSeen.res = "Corrupted"
  /\ TailSeen.res = "Corrupted"
  /\ gret.res = "Corrupted"

\* C7: an add whose range shares a block with a partition returns
\* OutOfBounds (Conflict is returned when the new entry shares a partition
\* GUID), and an add that returns an error leaves the Disk as it was.
C7_AddRollback ==
  [][gret'.op = "add" =>
       /\ gret'.res \notin {"ok", "panic"} => disk' = disk
       /\ (gret'.flags.overlap /\ gret'.flags.nameLen <= NameCap) =>
            gret'.res \in {"OutOfBounds", "Conflict"}
       /\ (gret'.flags.overlap /\ ~gret'.flags.shared
           /\ gret'.flags.nameLen <= NameCap) => gret'.res = "OutOfBounds"
       /\ (gret'.flags.shared /\ ~gret'.flags.overlap /\ gret'.flags.fits
           /\ gret'.flags.nameLen <= NameCap) => gret'.res = "Conflict"]_vars

\* an add rejected for its overlap, on a Disk that holds a partition
C7_Witness ==
  /\ gret.op = "add"
  /\ gret.res = "OutOfBounds"
  /\ gret.flags.overlap
  /\ disk.live
  /\ Len(disk.entries) >= 1

\* C8: an add with a name of more than 36 code units returns OutOfBounds.
C8_LongNameRejected ==
  (gret.op = "add" /\ gret.flags.nameLen > NameCap) => gret.res = "OutOfBounds"

\* C9: after a format and successful adds, Disk::load returns the Disk that
\* is in memory: GUID, usable range, and the partitions in order.
C9_RoundTrip ==
  (synced /\ disk.live) => DiskLoad(dev, {}) = [res |-> "some", disk |-> disk]

\* C10: no two entries of a Disk share a block or a partition GUID.
C10_Disjoint ==
  disk.live =>
    \A i, j \in 1..Len(disk.entries) :
      i # j =>
        /\ ~ShareBlock(disk.entries[i].data, disk.entries[j].data)
        /\ disk.entries[i].guid # disk.entries[j].guid

\* a Disk with two partitions, after an add that was refused for a range
\* strictly inside or around a partition
C10_Witness ==
  /\ disk.live
  /\ Len(disk.entries) = 2
  /\ gret.op = "add"
  /\ gret.res = "ok"

\* C11: every entry of a Disk that Disk::load returned lies inside the
\* usable range of that Disk.
C11_EntriesInUsable ==
  (gret.op = "load" /\ disk.live) =>
    \A i \in 1..Len(disk.entries) : Contains(disk.usable, disk.entries[i].data)

\* C12: the usable range of a Disk that Disk::load returned lies between the
\* two entries arrays of K = EBlocks blocks, clear of both headers.
C12_UsableClear ==
  (gret.op = "load" /\ disk.live) =>
    /\ disk.usable.first >= 2 + EBlocks(Len(disk.entries))
    /\ disk.usable.last <= DevLen - 2 - EBlocks(Len(disk.entries))

\* C13: Partition::get(j) with j < len returns the block the device holds at
\* j + first, and Partition::set(j, b) stores b there and nowhere else.
C13_PartitionOffset ==
  [][/\ pret'.op = "get" => (pret'.res = "ok" /\ pret'.blk = dev[pret'.at])
     /\ pret'.op = "set" =>
          (pret'.res = "ok" /\ dev' = [dev EXCEPT ![pret'.at] = pret'.blk])]_vars

\* C14: while no write fails, Journal::get(j) returns the block of the last
\* set(j, .), or the initial block if there was none, across sets of other
\* blocks and re-opens.
C14_DeviceContract ==
  /\ jret = "get_ok" => jlast.blk = jmodel[jlast.idx]
  /\ \A j \in JIndex : Logical(jdev)[j] = jmodel[j]

\* a get that returned a block written by set
C14_Witness ==
  /\ jret = "get_ok"
  /\ jlast.blk = [c \in 1..UpperCells |-> 1]
  /\ \E j \in JIndex : j # jlast.idx /\ jmodel[j] # jlast.blk


\* C15: an Hmac::get returns the body of the last Hmac::set at its index or
\* BlockModified, and returns BlockModified whenever the inner block it read
\* differs, in body or tag, from the block that set stored.
C15_Soundness ==
  (hret.op = "get" /\ hmodel[hret.idx] # NoBody) =>
    /\ hret.res = "ok" => hret.body = hmodel[hret.idx]
    /\ hret.raw # SetBlock(hret.idx, hmodel[hret.idx]) => hret.res = "BlockModified"

\* C16: over an inner device that nothing corrupts, an Hmac::get after an
\* Hmac::set at the same index returns Ok with the body that was set, and
\* the wrapper is as long as the inner device.
C16_Liveness ==
  /\ (hret.op = "get" /\ hmodel[hret.idx] # NoBody) =>
        (hret.res = "ok" /\ hret.body = hmodel[hret.idx])
  /\ HmacLen(hdev) = HLen

C16_Witness ==
  /\ hret.op = "get"
  /\ hret.idx = HLen - 1
  /\ hret.res = "ok"
  /\ hret.body \in HSetBodies
  /\ \E i \in HIndex : hmodel[i] \notin {NoBody, hret.body}


\* C17: on a Disk made by format and successful adds, an add of a range that
\* holes() returns succeeds, and holes() no longer returns that range.
C17_HolesAreFree ==
  (disk.live /\ synced) =>
    \A h \in 1..Len(Holes(disk)) :
      LET hole == Holes(disk)[h]
          r == AddTo(disk, 7, hole, 0, 23)
      IN /\ r.res = "ok"
         /\ \A g \in 1..Len(Holes(r.disk)) : Holes(r.disk)[g] # hole

\* C18: every range start..end that holes() returns has start < end.
C18_HolesPositive ==
  disk.live => \A h \in 1..Len(Holes(disk)) : Holes(disk)[h].start < Holes(disk)[h].end


\* C19: a Crypt::set never fails over a Memory, a Crypt::get returns the
\* block of the last Crypt::set at its index when the Crypt that reads has
\* the key and cipher of the one that wrote, and the length and the block
\* size are those of the inner device.
C19_CryptRoundTrip ==
  /\ cret.op = "set" => cret.res = "ok"
  /\ (/\ cret.op = "get"
      /\ cmodel[cret.idx].set
      /\ cmodel[cret.idx].key = crypt.key
      /\ cmodel[cret.idx].cipher = crypt.cipher) =>
        (cret.res = "ok" /\ cret.blk = cmodel[cret.idx].block)
  /\ CryptLen(cdev) = CryptCount
  /\ \A i \in CryptIndex : Len(cdev[i]) = CryptCells

\* C20: a Tear::set that returns Torn leaves new[0..k) ++ old[k..S) in the
\* backing block for some k in [0, S); one that returns Ok leaves new.
C20_TearSemantics ==
  tret.op = "set" =>
    /\ tret.res = "Torn" =>
         \E k \in 0..LowerCells - 1 : tdev[tret.idx] = TornBlock(tret.old, tret.new, k)
    /\ tret.res = "ok" => tdev[tret.idx] = tret.new

\* C21: after a successful add the secondary copy passes per-copy validation
\* with the entries of the primary, and a load of the device with block 1
\* zeroed returns the Disk with the same GUID and partitions.
C21_SecondaryUsable ==
  (gret.op = "add" /\ gret.res = "ok") =>
    LET zeroed == DiskLoad([dev EXCEPT ![1] = << >>], {})
    IN /\ LoadTable(dev, DevLen - 1, {}).res = "some"
       /\ LoadTable(dev, DevLen - 1, {}).entries = LoadTable(dev, 1, {}).entries
       /\ zeroed.res = "some"
       /\ zeroed.disk.guid = disk.guid
       /\ zeroed.disk.entries = disk.entries

\* C22: when a save over a device that holds a valid GPT is cut short after
\* some of its block writes, Disk::load returns a Disk whose entries are the
\* list from before the save or the list being saved: that list with the
\* added entry after it for an add, the empty list for a format.
C22_LoadAfterCut ==
  [][(crashed' /\ ~crashed /\ DiskLoad(dev, {}).res = "some") =>
       LET old == DiskLoad(dev, {}).disk.entries
           now == DiskLoad(dev', {})
       IN /\ now.res = "some"
          /\ \/ now.disk.entries = old
             \/ /\ gret'.op = "add"
                /\ Len(now.disk.entries) = Len(old) + 1
                /\ SubSeq(now.disk.entries, 1, Len(old)) = old
             \/ /\ gret'.op = "format"
                /\ now.disk.entries = << >>]_vars

\* the physical writes of a set in protocol order: the Ratio blocks of meta,
\* of shadow, of the destination region
ProtocolOrder(index, block) ==
  [n \in 1..3 * Ratio |->
     LET region == IF n <= Ratio THEN 0 ELSE IF n <= 2 * Ratio THEN 1 ELSE index + 2
         part == (n - 1) % Ratio
         whole == IF n <= Ratio THEN MetaBlock(index, block) ELSE block
     IN [at |-> region * Ratio + part,
         blk |-> [c \in 1..LowerCells |-> whole[part * LowerCells + c]]]]

\* C23: a Journal::set leaves the device as some prefix of its writes in
\* the order meta, shadow, destination does, with the write after the prefix
\* stored in part or not at all and no later write made; it returns Ok
\* exactly when the prefix is all 3 * Ratio writes.
C23_WriteOrder ==
  [][(jret' \in {"set_ok", "set_err"}) =>
       LET order == ProtocolOrder(jlast'.idx, jlast'.blk)
       IN \E f \in 0..3 * Ratio :
            /\ (jret' = "set_ok") <=> (f = 3 * Ratio)
            /\ \A n \in 1..f : jdev'[order[n].at] = order[n].blk
            /\ f < 3 * Ratio =>
                 \E k \in 0..LowerCells :
                   jdev'[order[f + 1].at] =
                     TornBlock(jdev[order[f + 1].at], order[f + 1].blk, k)
            /\ \A p \in DOMAIN jdev :
                 (\A n \in 1..f + 1 : n <= 3 * Ratio => order[n].at # p) =>
                   jdev'[p] = jdev[p]]_vars

\* a set that failed in the shadow region: meta is written, the shadow is
\* not whole, the destination is as it was
C23_Witness ==
  /\ jret = "set_err"
  /\ Pull(jdev, 0) = MetaBlock(jlast.idx, jlast.blk)
  /\ Pull(jdev, 1) # jlast.blk
  /\ Pull(jdev, jlast.idx + 2) # jlast.blk

\* the idx and crc that Journal::load reads from meta, and the shadow
MetaIdx(d) == Pull(d, 0)[1]
MetaCrc(d) == Pull(d, 0)[2]
Shadow(d) == Pull(d, 1)

\* the physical blocks of a region
Region(index) == index * Ratio .. index * Ratio + Ratio - 1

\* C24: a Journal::load changes no block when the CRC of the idx in meta and
\* the shadow differs from the crc in meta; when it is equal the load changes
\* blocks of the destination region idx + 2 only, towards the shadow, and a
\* load that returns Ok leaves that region equal to the shadow.  Meta and
\* shadow are never changed.
C24_RecoveryRule ==
  [][(jret' \in {"load_ok", "load_err"}) =>
       /\ \A p \in Region(0) \cup Region(1) : jdev'[p] = jdev[p]
       /\ Crc64(MetaIdx(jdev), Shadow(jdev)) # MetaCrc(jdev) => jdev' = jdev
       /\ Crc64(MetaIdx(jdev), Shadow(jdev)) = MetaCrc(jdev) =>
            /\ \A p \in DOMAIN jdev \ Region(MetaIdx(jdev) + 2) : jdev'[p] = jdev[p]
            /\ \A p \in Region(MetaIdx(jdev) + 2) :
                 \E k \in 0..LowerCells :
                   jdev'[p] = TornBlock(jdev[p], jdev[p - MetaIdx(jdev) * Ratio - Ratio], k)
            /\ jret' = "load_ok" => Pull(jdev', MetaIdx(jdev) + 2) = Shadow(jdev)]_vars

\* a load whose replay completed a set that had failed short of its
\* destination
C24_Witness ==
  /\ jret = "load_ok"
  /\ jeffect = "new"
  /\ Crc64(MetaIdx(jdev), Shadow(jdev)) = MetaCrc(jdev)
  /\ Pull(jdev, MetaIdx(jdev) + 2) = Shadow(jdev)
  /\ Shadow(jdev) # [c \in 1..UpperCells |-> 0]

\* C25: the logical blocks are the regions 2 .. JournalLen + 1 of Ratio
\* physical blocks each: they lie inside the inner device, apart from meta,
\* shadow and one another; the destination writes of a set go to exactly
\* the blocks of region index + 2, a get returns exactly those blocks, and a
\* set that returns Ok changes no other logical block.
C25_Layout ==
  /\ \A i \in JIndex :
       /\ Region(i + 2) \subseteq DOMAIN jdev
       /\ Region(i + 2) \cap (Region(0) \cup Region(1)) = {}
       /\ \A j \in JIndex : j # i => Region(i + 2) \cap Region(j + 2) = {}
       /\ \A block \in JCleanBlocks :
            {Push(i + 2, block)[n].at : n \in 1..Ratio} = Region(i + 2)
  /\ (JournalLen + 2) * Ratio <= JCount
  /\ jret = "get_ok" =>
       \A c \in 1..UpperCells :
         jlast.blk[c] = jdev[(jlast.idx + 2) * Ratio + (c - 1) \div LowerCells]
                            [((c - 1) % LowerCells) + 1]
  /\ jret = "set_ok" =>
       /\ Pull(jdev, jlast.idx + 2) = jlast.blk
       /\ \A j \in JIndex \ {jlast.idx} : Pull(jdev, j + 2) = jbefore[j]

\* a get of the last logical block, after a set gave it cells that differ
C25_Witness ==
  /\ jret = "get_ok"
  /\ jlast.idx = JournalLen - 1
  /\ jlast.blk = [c \in 1..UpperCells |-> IF c = 1 THEN 1 ELSE 0]

C27_HolesTile ==
  LET entries == disk.entries
      holes == Holes(disk)
      ascending == \A i \in 1..Len(entries) - 1 :
                     entries[i].data.first < entries[i + 1].data.first
      holeBlocks == UNION {holes[h].start .. holes[h].end - 1 : h \in 1..Len(holes)}
      entryBlocks == UNION {entries[i].data.first .. entries[i].data.last :
                              i \in 1..Len(entries)}
  IN (disk.live /\ ascending) =>
       /\ \A h \in 1..Len(holes) : holes[h].start < holes[h].end
       /\ \A h \in 1..Len(holes) - 1 : holes[h].end < holes[h + 1].start
       /\ holeBlocks = (disk.usable.first .. disk.usable.last) \ entryBlocks
       /\ (gret.op = "format" /\ gret.res = "ok") =>
            holes = << [start |-> disk.usable.first, end |-> disk.usable.last + 1] >>

\* C28: a Partition::get or Partition::set succeeds only for the sole live
\* handle and otherwise panics with the device untouched, a Disk::add while
\* a Partition is alive panics with the device untouched, and no step
\* writes the device while two handles are alive.
C28_ExclusiveAccess ==
  [][LET handles == (IF disk.live THEN 1 ELSE 0) + Len(parts)
     IN /\ (pret'.op \in {"get", "set"} /\ pret'.res = "ok") => handles = 1
        /\ (pret'.op \in {"get", "set"} /\ handles > 1) =>
             (pret'.res = "panic" /\ dev' = dev)
        /\ (gret'.op = "add" /\ gret' # gret /\ parts # << >>) =>
             (gret'.res = "panic" /\ dev' = dev)
        /\ dev' # dev => handles <= 1]_vars

\* a Partition::set that panicked and stored nothing
C28_Witness ==
  /\ pret.op = "set"
  /\ pret.res = "panic"
  /\ dev[pret.at] # pret.blk
  /\ ~disk.live
  /\ parts = << >>

\* the device a Journal::load that meets no failure leaves: the destination
\* region of meta's idx holds the shadow when the CRC matches
Recovered(d) ==
  [p \in DOMAIN d |->
     IF /\ Crc64(MetaIdx(d), Shadow(d)) = MetaCrc(d)
        /\ p \in Region(MetaIdx(d) + 2)
       THEN d[p - MetaIdx(d) * Ratio - Ratio]
       ELSE d[p]]

\* C29: a Journal::load that returns an error leaves meta and shadow as they
\* were and leaves the device one from which a load without failure ends in
\* the same state as it would have before; a load that returns Ok ends in
\* that state.
C29_RetryLoad ==
  [][/\ jret' = "load_err" =>
          /\ Pull(jdev', 0) = Pull(jdev, 0)
          /\ Shadow(jdev') = Shadow(jdev)
          /\ Recovered(jdev') = Recovered(jdev)
     /\ jret' = "load_ok" => jdev' = Recovered(jdev)]_vars

\* a load that failed in its replay with one block of the destination
\* written: the destination is neither what it was nor the shadow
C29_Witness ==
  /\ jret = "load_err"
  /\ Crc64(MetaIdx(jdev), Shadow(jdev)) = MetaCrc(jdev)
  /\ Pull(jdev, MetaIdx(jdev) + 2) # Shadow(jdev)
  /\ \E p \in Region(MetaIdx(jdev) + 2) :
       jdev[p] = jdev[p - MetaIdx(jdev) * Ratio - Ratio] /\ jdev[p] # [c \in 1..LowerCells |-> 0]

\* C30: every entry of a Disk that Disk::load returned is the entry of one
\* of the first entries_count slots of the entries array of the copy taken.
C30_OnlyProtected ==
  LET taken == IF HeadSeen.res = "some" THEN HeadSeen ELSE TailSeen
      slot(s) == DecodeEntry(
                   [w \in 1..EntryWords |->
                      BufferWords(dev, taken.header.elba, s * EntryWords)
                        [(s - 1) * EntryWords + w]])
  IN (gret.op = "load" /\ disk.live) =>
       \A i \in 1..Len(disk.entries) :
         \E s \in 1..taken.header.ecount : disk.entries[i] = slot(s)

\* C31: an Hmac::get at index j that reads the inner block an Hmac::set
\* stored at another index i, tag included, returns BlockModified.
C31_IndexBound ==
  hret.op = "get" =>
    \A i \in HIndex \ {hret.idx} :
      (hmodel[i] # NoBody /\ hret.raw = SetBlock(i, hmodel[i])) =>
        hret.res = "BlockModified"

\* a get of a block that another party copied, as set stored it, from the
\* index it was set at to the index read
C31_Witness ==
  /\ hret.op = "get"
  /\ hret.res = "BlockModified"
  /\ htampers = 1
  /\ hdev[hret.idx] = hret.raw
  /\ \E i \in HIndex \ {hret.idx} :
       /\ hmodel[i] \in HSetBodies
       /\ hdev[i] = SetBlock(i, hmodel[i])
       /\ hret.raw = hdev[i]

\* C32: a Disk::load, whatever it returns, leaves every block of the device
\* as it was: a copy that is missing or corrupted stays so.
C32_LoadReadOnly ==
  [][gret'.op = "load" => dev' = dev]_vars

\* a load that took the secondary copy and left the zeroed primary header
\* zeroed
C32_Witness ==
  /\ gret.op = "load"
  /\ gret.res = "some"
  /\ gret.flags.bad = {}
  /\ dev[1] = << >>
  /\ LoadTable(dev, DevLen - 1, {}).res = "some"
  /\ disk.live

====
